---- MODULE Spec2Model ----
(***************************************************************************)
(* Model of the SECOP natural-language search backend (backend/app):       *)
(*   core/secop_client.py   SecopClient     caching, retrying remote query *)
(*   core/query_parser.py   QueryParser     text -> QueryParams            *)
(*   core/entity_resolver.py EntityResolver mention -> ResolvedEntity      *)
(*   core/soql_builder.py   SoQLBuilder     QueryParams -> SoQL payload    *)
(*   services/search_service.py SearchService  the pipeline                *)
(* Each component has its own specification (SpecClient, ...); the         *)
(* variables of the other components stay at their initial values.         *)
(***************************************************************************)
EXTENDS Integers, Sequences, FiniteSets, TLC

VARIABLES
    \* ---- SecopClient: shared cache store and the concurrent query() calls
    cache,        \* redis: cache key -> entry (absent, or data with a TTL)
    max_retries,  \* SecopClient._max_retries
    retry_backoff,\* SecopClient._retry_backoff (in units of the base delay)
    redis_on,     \* SecopClient._redis is not None
    qpc,          \* per call: position in query()
    qin,          \* per call: the arguments (dataset, params)
    cached,       \* per call: what redis.get returned
    attempt,      \* per call: the local `attempt`
    qresult,      \* per call: the local `result` / the returned value
    calls,        \* per call: outcomes of its client.get calls, in order
    sleeps,       \* per call: the durations it passed to time.sleep, in order
    writes,       \* per call: the setex calls it made, in order
    \* ---- QueryParser.parse: one call
    ptext,        \* the argument `query`
    pllm,         \* QueryParser._llm_client: absent, or what generate() does
    ppc,          \* position in parse()
    praw,         \* the local `raw_response`
    presponse,    \* the local `response`
    pheur,        \* whether _heuristic_parse was run
    pout,         \* what parse() returned or raised
    \* ---- EntityResolver.resolve: one call
    rmention,     \* the argument `mention`
    rtopk,        \* the argument `top_k`
    rchroma,      \* EntityResolver._chroma_client
    rcohere,      \* EntityResolver._cohere_client
    rpc,          \* position in resolve()
    rcands,       \* the local `candidates`
    rreranked,    \* whether _rerank_with_cohere was called
    rout,         \* what resolve() returned or raised
    \* ---- SoQLBuilder.build: one call
    bparams,      \* the argument `params`
    bentity,      \* the argument `entity`
    bmap,         \* SoQLBuilder._dataset_map
    bpc,          \* position in build()
    bdataset,     \* the local `dataset_identifier`
    bsoql,        \* the local `soql_params`, as (key, value) pairs in insertion order
    bout,         \* what build() returned or raised
    \* ---- SearchService.search: one call
    squery,       \* the argument `query`
    schannel,     \* the argument `channel`
    spc,          \* position in search()
    sout,         \* what search() returned or raised
    \* ---- QueryParams(...): one construction
    qp_args,      \* the arguments of the constructor
    qp_pc,        \* position in the construction
    qp_self,      \* the fields assigned so far
    qp_out        \* the object constructed, or the exception raised

clientVars == <<cache, max_retries, retry_backoff, redis_on, qpc, qin, cached,
                attempt, qresult, calls, sleeps, writes>>

parseVars == <<ptext, pllm, ppc, praw, presponse, pheur, pout>>

resolveVars == <<rmention, rtopk, rchroma, rcohere, rpc, rcands, rreranked, rout>>

buildVars == <<bparams, bentity, bmap, bpc, bdataset, bsoql, bout>>

searchVars == <<squery, schannel, spc, sout>>

paramsVars == <<qp_args, qp_pc, qp_self, qp_out>>

vars == <<clientVars, parseVars, resolveVars, buildVars, searchVars, paramsVars>>

\* what SecopClient.query leaves alone
nonClientVars == <<parseVars, resolveVars, buildVars, searchVars, paramsVars>>
\* what QueryParser.parse leaves alone
nonParseVars == <<clientVars, resolveVars, buildVars, searchVars, paramsVars>>
\* what EntityResolver.resolve leaves alone
nonResolveVars == <<clientVars, parseVars, buildVars, searchVars, paramsVars>>
\* what SoQLBuilder.build leaves alone
nonBuildVars == <<clientVars, parseVars, resolveVars, searchVars, paramsVars>>

\* ------------------------------------------------------------------ bounds
NumCalls == 2          \* concurrent query() executions (SpecClient)
MaxWords == 2           \* query texts of up to MaxWords vocabulary words
MaxTopK == 2            \* top_k ranges over 1..MaxTopK
MaxHits == 2            \* hits held by the similarity index
MaxRerank == 2          \* items of a reranker response
MaxLimit == 2           \* QueryParams is constructed with limits up to MaxLimit
ConcRetries == 1       \* SpecClient: max_retries ranges over 0..ConcRetries
MaxRetriesBound == 3   \* SpecClientSeq: max_retries ranges over 0..MaxRetriesBound
MaxBackoff == 2        \* SpecClientSeq: retry_backoff ranges over 0..MaxBackoff

Procs == 1..NumCalls

\* ------------------------------------------------------------------ values
\* An optional value: Python's None, or some data.
None == [some |-> FALSE, data |-> <<>>]
Some(d) == [some |-> TRUE, data |-> d]

\* json.dumps / json.loads of a row list: the text is a different value from
\* the rows it encodes.
JsonDumps(v) == <<"json", v>>
JsonLoads(s) == IF Len(s) = 2 THEN s[2] ELSE "TypeError"

\* ======================================================================
\* Python values.  A str is a sequence of one-character strings, so that the
\* code's character-level operations (lower, strip, in, re.search, replace)
\* are computed and not assumed; accented letters are the symbols a_acute ...
\* dict keys and the rendered SoQL clauses are TLA+ strings.
\* ======================================================================
PyNone == [kind |-> "none"]
PyInt(n) == [kind |-> "int", num |-> n]
PyFloat(n) == [kind |-> "float", num |-> n]
PyBool(b) == [kind |-> "bool", val |-> b]
PyStr(chars) == [kind |-> "str", chars |-> chars]
PyList(items) == [kind |-> "list", items |-> items]
\* a dict in insertion order: a sequence of [key, val]
PyDict(items) == [kind |-> "dict", items |-> items]

\* bool(v)
Truthy(v) ==
    CASE v.kind = "none" -> FALSE
      [] v.kind \in {"int", "float"} -> v.num # 0
      [] v.kind = "bool" -> v.val
      [] v.kind = "str" -> Len(v.chars) > 0
      [] v.kind \in {"list", "dict"} -> Len(v.items) > 0
      [] OTHER -> TRUE

\* `a or b`
PyOr(a, b) == IF Truthy(a) THEN a ELSE b

Digits == {"0", "1", "2", "3", "4", "5", "6", "7", "8", "9"}
DigitSeq == <<"0", "1", "2", "3", "4", "5", "6", "7", "8", "9">>
UpperSeq == <<"A", "B", "C", "D", "E", "F", "G", "H", "I", "J", "K", "L", "M",
              "N", "O", "P", "Q", "R", "S", "T", "U", "V", "W", "X", "Y", "Z">>
LowerSeq == <<"a", "b", "c", "d", "e", "f", "g", "h", "i", "j", "k", "l", "m",
              "n", "o", "p", "q", "r", "s", "t", "u", "v", "w", "x", "y", "z">>
Accented == {"a_acute", "e_acute", "i_acute", "o_acute", "u_acute", "n_tilde"}
Letters == { UpperSeq[i] : i \in 1..26 } \cup { LowerSeq[i] : i \in 1..26 } \cup Accented
\* \s and \w of the re module
Whitespace == {" "}
WordChars == Letters \cup Digits \cup {"_"}
\* the class [\w\s<accented>.&-] of the buyer and supplier patterns
NameChars == WordChars \cup Whitespace \cup Accented \cup {".", "&", "-"}
\* the class [\d.,] of the amount pattern
AmountChars == Digits \cup {".", ","}

\* str.lower() on one character, and on a str
LowerChar(c) == IF \E i \in 1..26 : UpperSeq[i] = c
                  THEN LowerSeq[CHOOSE i \in 1..26 : UpperSeq[i] = c]
                  ELSE c
Lower(t) == [i \in 1..Len(t) |-> LowerChar(t[i])]

DigitVal(c) == (CHOOSE i \in 1..10 : DigitSeq[i] = c) - 1
\* int(s) for a str of digits
RECURSIVE DigitsToInt(_)
DigitsToInt(s) ==
    IF s = <<>> THEN 0
    ELSE 10 * DigitsToInt(SubSeq(s, 1, Len(s) - 1)) + DigitVal(s[Len(s)])

\* str(n) for an int
RECURSIVE NatToStr(_)
NatToStr(n) == IF n < 10 THEN DigitSeq[n + 1]
               ELSE NatToStr(n \div 10) \o DigitSeq[(n % 10) + 1]
IntToStr(n) == IF n < 0 THEN "-" \o NatToStr(-n) ELSE NatToStr(n)

\* str.isdigit()
IsDigit(s) == Len(s) > 0 /\ \A i \in 1..Len(s) : s[i] \in Digits

\* t[i:].startswith(w)
StartsAt(t, i, w) ==
    /\ i >= 1
    /\ i + Len(w) - 1 <= Len(t)
    /\ \A k \in 1..Len(w) : t[i + k - 1] = w[k]
\* `w in t`
Contains(t, w) == \E i \in 1..(Len(t) + 1) : StartsAt(t, i, w)

\* the last index of the longest run of characters of cls that starts at i
\* (i - 1 when t[i] is not in cls): a greedy cls* from i
RunEnd(t, i, cls) ==
    CHOOSE e \in (i - 1)..Len(t) :
        /\ \A k \in i..e : t[k] \in cls
        /\ (e = Len(t) \/ t[e + 1] \notin cls)

SetMin(S) == CHOOSE m \in S : \A x \in S : m <= x

\* str.strip(chars)
Strip(s, cls) ==
    LET keep == { i \in 1..Len(s) : s[i] \notin cls } IN
    IF keep = {} THEN <<>>
    ELSE SubSeq(s, SetMin(keep), CHOOSE m \in keep : \A x \in keep : x <= m)

\* str.replace(c, "") for the characters of cls
RECURSIVE RemoveChars(_, _)
RemoveChars(s, cls) ==
    IF s = <<>> THEN <<>>
    ELSE IF Head(s) \in cls THEN RemoveChars(Tail(s), cls)
    ELSE <<Head(s)>> \o RemoveChars(Tail(s), cls)

\* a str as a TLA+ string
RECURSIVE Str(_)
Str(chars) == IF chars = <<>> THEN "" ELSE Head(chars) \o Str(Tail(chars))
\* the literals of query_parser.py
W_contracts == <<"c", "o", "n", "t", "r", "a", "c", "t", "s">>
W_suppliers == <<"s", "u", "p", "p", "l", "i", "e", "r", "s">>
W_agencies == <<"a", "g", "e", "n", "c", "i", "e", "s">>
W_proveedor == <<"p", "r", "o", "v", "e", "e", "d", "o", "r">>
W_supplier == <<"s", "u", "p", "p", "l", "i", "e", "r">>
W_entidad == <<"e", "n", "t", "i", "d", "a", "d">>
W_agency == <<"a", "g", "e", "n", "c", "y">>
W_mayor == <<"m", "a", "y", "o", "r">>
W_a == <<" ", "a">>
W_cuanto == <<"c", "u", "a_acute", "n", "t", "o">>
W_total == <<"t", "o", "t", "a", "l">>
W_sum == <<"s", "u", "m">>
W_top == <<"t", "o", "p">>
W_primero == <<"p", "r", "i", "m", "e", "r", "o">>
W_primera == <<"p", "r", "i", "m", "e", "r", "a">>
W_primeros == <<"p", "r", "i", "m", "e", "r", "o", "s">>
W_primeras == <<"p", "r", "i", "m", "e", "r", "a", "s">>
W_total_amount == <<"t", "o", "t", "a", "l", "_", "a", "m", "o", "u", "n", "t">>

\* ---------------------------------------------------- QueryParser, inputs
\* the words the query texts are made of
Vocabulary == {
    <<"T", "o", "p">>,
    <<"5">>,
    <<"0">>,
    <<"p", "r", "o", "v", "e", "e", "d", "o", "r">>,
    <<"A", "C", "M", "E">>,
    <<"2", "0", "2", "4">>,
    <<"e", "n", "t", "i", "d", "a", "d">>,
    <<"m", "a", "y", "o", "r">>,
    <<"1", "2", "0", "0", "0", "0">>,
    <<"t", "o", "t", "a", "l">> }
\* whole sentences: those of tests/test_query_parser.py and some that reach
\* the optional parts of the patterns
Sentences == {
    <<"T", "o", "p", " ", "5", " ", "c", "o", "n", "t", "r", "a", "t", "o", "s", " ", "d", "e", "l", " ", "p", "r", "o", "v", "e", "e", "d", "o", "r", " ", "A", "C", "M", "E", " ", "C", "o", "r", "p", " ", "2", "0", "2", "4">>,
    <<"C", "o", "n", "t", "r", "a", "t", "o", "s", " ", "d", "e", " ", "l", "a", " ", "e", "n", "t", "i", "d", "a", "d", " ", "M", "i", "n", "i", "s", "t", "e", "r", "i", "o", " ", "d", "e", " ", "S", "a", "l", "u", "d", " ", "2", "0", "2", "2">>,
    <<"p", "r", "i", "m", "e", "r", "a", "s", " ", "3", " ", "d", "e", " ", "p", "r", "o", "v", "e", "e", "d", "o", "r", "a", " ", "A", "C", "M", "E", "-", "2", "0", "2", "4", ".">>,
    <<"c", "u", "a_acute", "n", "t", "o", " ", "s", "u", "m", "a", " ", "m", "a", "y", "o", "r", " ", "a", " ", "$", "1", ".", "5", "0", "0", ",", "7", "5", " ", "e", "n", " ", "1", "9", "9", "9">>,
    <<"s", "u", "p", "p", "l", "i", "e", "r", " ", "a", "g", "e", "n", "c", "y">>,
    <<"e", "n", "t", "i", "d", "a", "d", " ", " ", "$">>,
    <<"E", "N", "T", "I", "D", "A", "D", " ", "P", "r", "o", "v", "e", "e", "d", "o", "r">> }

\* ---------------------------------------------------- SecopClient, inputs
Datasets == {"contracts"}
\* params mappings in insertion order: a sequence of <<key, value>> pairs.
ParamSets == { <<>>,
               << <<"$limit", "5">>, <<"$where", "year = 2023">> >>,
               << <<"$where", "year = 2023">>, <<"$limit", "5">> >> }
\* what the remote service may answer: an ordered sequence of rows
RowSets == { <<>>, <<"row1">> }
\* the params the concurrent calls of SpecClient are made with: two distinct keys
ConcParamSets == { ps \in ParamSets : Len(ps) = 0 \/ ps[1][1] = "$limit" }
NoInput == [dataset |-> "", params |-> <<>>]

\* the fixed TTL of setex (seconds)
CacheTTL == 300

\* Key order of json.dumps(sort_keys=True) on the keys the builder emits
\* (code-point order: "$limit" < "$select" < "$where").
KeyRank(k) == CASE k = "$limit" -> 1 [] k = "$select" -> 2 [] k = "$where" -> 3
                [] OTHER -> 4

RECURSIVE InsertSorted(_, _)
InsertSorted(pair, s) ==
    IF s = <<>> THEN <<pair>>
    ELSE IF KeyRank(pair[1]) < KeyRank(Head(s)[1]) THEN <<pair>> \o s
    ELSE <<Head(s)>> \o InsertSorted(pair, Tail(s))

SortKeys_Unsorted(params) == params
RECURSIVE SortKeys(_)
SortKeys(params) ==
    IF params = <<>> THEN <<>>
    ELSE InsertSorted(Head(params), SortKeys(Tail(params)))

\* SecopClient._cache_key: f"secop:{dataset}:{json.dumps(params, sort_keys=True)}"
_cache_key(dataset, params) == <<"secop", dataset, SortKeys(params)>>

CacheKeys == { _cache_key(d, p) : d \in Datasets, p \in ParamSets }

\* the cache store: get answers None for a key it does not hold, setex
\* stores the entry under the key
RedisGet(store, k) == IF k \in DOMAIN store THEN store[k] ELSE None
RedisSetex_KeepFirst(store, k, entry) ==
    [x \in DOMAIN store \cup {k} |->
       IF x = k /\ ~RedisGet(store, k).some THEN Some(entry) ELSE RedisGet(store, x)]
RedisSetex(store, k, entry) ==
    [x \in DOMAIN store \cup {k} |-> IF x = k THEN Some(entry) ELSE store[x]]

\* `if cached is not None:` of query()
CacheHit_Never(c) == FALSE
CacheHit(c) == c.some

\* `if attempt > self._max_retries:` of query()
RetriesExhausted_OffByOne(a, m) == a >= m
RetriesExhausted(a, m) == a > m

\* lines 67-70: `if self._redis is not None:` setex comes before the return
AfterRemote_NoWrite(redis) == "returned"
AfterRemote(redis) == IF redis THEN "setex" ELSE "returned"

\* `sleep_for = self._retry_backoff * attempt`
SleepFor_Constant(backoff, a) == backoff
SleepFor(backoff, a) == backoff * a

\* ------------------------------------------------------- SecopClient, Init
\* the default retry_backoff (0.5 s), the unit the sleeps are counted in
DefaultBackoff == 1

\* no parse() call is under way
ParseOff ==
    /\ ptext = <<>>
    /\ pllm = [kind |-> "absent", raw |-> [kind |-> "none"]]
    /\ ppc = "off"
    /\ praw = [kind |-> "none"]
    /\ presponse = None
    /\ pheur = FALSE
    /\ pout = [status |-> "none", value |-> [kind |-> "none"], exc |-> ""]

\* no resolve() call is under way
ResolveOff ==
    /\ rmention = <<>>
    /\ rtopk = 0
    /\ rchroma = [kind |-> "absent"]
    /\ rcohere = [kind |-> "absent"]
    /\ rpc = "off"
    /\ rcands = <<>>
    /\ rreranked = FALSE
    /\ rout = [status |-> "none", value |-> [kind |-> "none"], exc |-> ""]

\* no build() call is under way
BuildOff ==
    /\ bparams = [kind |-> "none"]
    /\ bentity = None
    /\ bmap = [kind |-> "none"]
    /\ bpc = "off"
    /\ bdataset = [kind |-> "none"]
    /\ bsoql = <<>>
    /\ bout = [status |-> "none", value |-> [kind |-> "none"], exc |-> ""]

\* no QueryParams is being constructed
ParamsOff ==
    /\ qp_args = [kind |-> "none"]
    /\ qp_pc = "off"
    /\ qp_self = [kind |-> "none"]
    /\ qp_out = [status |-> "none", value |-> [kind |-> "none"], exc |-> ""]

\* no search() call is under way
SearchOff ==
    /\ squery = <<>>
    /\ schannel = "web"
    /\ spc = "off"
    /\ sout = [status |-> "none", value |-> [kind |-> "none"], exc |-> ""]

InitCalls ==
    /\ ParseOff
    /\ ResolveOff
    /\ BuildOff
    /\ SearchOff
    /\ ParamsOff
    /\ cache = [k \in CacheKeys |-> None]
    /\ redis_on \in BOOLEAN
    /\ qpc = [p \in Procs |-> "idle"]
    /\ qin = [p \in Procs |-> NoInput]
    /\ cached = [p \in Procs |-> None]
    /\ attempt = [p \in Procs |-> 0]
    /\ qresult = [p \in Procs |-> None]
    /\ calls = [p \in Procs |-> <<>>]
    /\ sleeps = [p \in Procs |-> <<>>]
    /\ writes = [p \in Procs |-> <<>>]

\* no query() call is under way
ClientOff ==
    /\ cache = [k \in CacheKeys |-> None]
    /\ max_retries = 0
    /\ retry_backoff = DefaultBackoff
    /\ redis_on = FALSE
    /\ qpc = [p \in Procs |-> "idle"]
    /\ qin = [p \in Procs |-> NoInput]
    /\ cached = [p \in Procs |-> None]
    /\ attempt = [p \in Procs |-> 0]
    /\ qresult = [p \in Procs |-> None]
    /\ calls = [p \in Procs |-> <<>>]
    /\ sleeps = [p \in Procs |-> <<>>]
    /\ writes = [p \in Procs |-> <<>>]

\* SpecClient: NumCalls callers share one SecopClient and its cache store
InitClient ==
    /\ InitCalls
    /\ max_retries \in 0..ConcRetries
    /\ retry_backoff = DefaultBackoff

\* SpecClientSeq: one caller, one execution of query() at a time
InitClientSeq ==
    /\ InitCalls
    /\ max_retries \in 0..MaxRetriesBound
    /\ retry_backoff \in 0..MaxBackoff

cache_key(p) == _cache_key(qin[p].dataset, qin[p].params)

\* query(dataset, params) is entered: lines 43-46
Query(p, dataset, params) ==
    /\ qpc[p] = "idle"
    /\ UNCHANGED nonClientVars
    /\ qin' = [qin EXCEPT ![p] = [dataset |-> dataset, params |-> params]]
    /\ qpc' = [qpc EXCEPT ![p] = IF redis_on THEN "get" ELSE "remote"]
    /\ UNCHANGED <<cache, max_retries, retry_backoff, redis_on, cached, attempt,
                   qresult, calls, sleeps, writes>>

\* cached = self._redis.get(cache_key); a hit returns json.loads(cached)
CacheGet(p) ==
    /\ qpc[p] = "get"
    /\ UNCHANGED nonClientVars
    /\ LET c == RedisGet(cache, cache_key(p)) IN
        /\ cached' = [cached EXCEPT ![p] = IF c.some THEN Some(c.data.value) ELSE None]
        /\ IF CacheHit(cached'[p])
             THEN /\ qresult' = [qresult EXCEPT ![p] =
                                   Some(JsonLoads(cached'[p].data))]
                  /\ qpc' = [qpc EXCEPT ![p] = "returned"]
             ELSE /\ qpc' = [qpc EXCEPT ![p] = "remote"]
                  /\ UNCHANGED qresult
    /\ UNCHANGED <<cache, max_retries, retry_backoff, redis_on, qin, attempt,
                   calls, sleeps, writes>>

\* result = self._client.get(dataset, **params) returns rows: break
RemoteOk(p, rows) ==
    /\ qpc[p] = "remote"
    /\ UNCHANGED nonClientVars
    /\ calls' = [calls EXCEPT ![p] = Append(@, "ok")]
    /\ qresult' = [qresult EXCEPT ![p] = Some(rows)]
    /\ qpc' = [qpc EXCEPT ![p] = AfterRemote(redis_on)]
    /\ UNCHANGED <<cache, max_retries, retry_backoff, redis_on, qin, cached,
                   attempt, sleeps, writes>>

\* self._client.get raises: attempt += 1; raise, or sleep and loop
RemoteFail(p) ==
    /\ qpc[p] = "remote"
    /\ UNCHANGED nonClientVars
    /\ calls' = [calls EXCEPT ![p] = Append(@, "fail")]
    /\ attempt' = [attempt EXCEPT ![p] = @ + 1]
    /\ IF RetriesExhausted(attempt'[p], max_retries)
         THEN /\ qpc' = [qpc EXCEPT ![p] = "raised"]
              /\ UNCHANGED sleeps
         ELSE /\ qpc' = [qpc EXCEPT ![p] = "sleep"]
              /\ sleeps' = [sleeps EXCEPT ![p] =
                              Append(@, SleepFor(retry_backoff, attempt'[p]))]
    /\ UNCHANGED <<cache, max_retries, retry_backoff, redis_on, qin, cached,
                   qresult, writes>>

\* time.sleep(sleep_for) returns: next iteration of `while True`
Wake(p) ==
    /\ qpc[p] = "sleep"
    /\ UNCHANGED nonClientVars
    /\ qpc' = [qpc EXCEPT ![p] = "remote"]
    /\ UNCHANGED <<cache, max_retries, retry_backoff, redis_on, qin, cached,
                   attempt, qresult, calls, sleeps, writes>>

\* self._redis.setex(cache_key, 300, json.dumps(result)); return result
CacheSet(p) ==
    /\ qpc[p] = "setex"
    /\ UNCHANGED nonClientVars
    /\ LET entry == [value |-> JsonDumps(qresult[p].data), ttl |-> CacheTTL] IN
        /\ cache' = RedisSetex(cache, cache_key(p), entry)
        /\ writes' = [writes EXCEPT ![p] =
                        Append(@, [key |-> cache_key(p), entry |-> entry])]
    /\ qpc' = [qpc EXCEPT ![p] = "returned"]
    /\ UNCHANGED <<max_retries, retry_backoff, redis_on, qin, cached, attempt,
                   qresult, calls, sleeps>>

\* the cache store drops an entry whose TTL has run out
Expire(k) ==
    /\ k \in DOMAIN cache
    /\ cache[k].some
    /\ UNCHANGED nonClientVars
    /\ cache' = [cache EXCEPT ![k] = None]
    /\ UNCHANGED <<max_retries, retry_backoff, redis_on, qpc, qin, cached,
                   attempt, qresult, calls, sleeps, writes>>

\* query() has returned or raised to its caller; the caller may call again
QueryDone(p) ==
    /\ qpc[p] \in {"returned", "raised"}
    /\ UNCHANGED nonClientVars
    /\ qpc' = [qpc EXCEPT ![p] = "idle"]
    /\ qin' = [qin EXCEPT ![p] = NoInput]
    /\ cached' = [cached EXCEPT ![p] = None]
    /\ attempt' = [attempt EXCEPT ![p] = 0]
    /\ qresult' = [qresult EXCEPT ![p] = None]
    /\ calls' = [calls EXCEPT ![p] = <<>>]
    /\ sleeps' = [sleeps EXCEPT ![p] = <<>>]
    /\ writes' = [writes EXCEPT ![p] = <<>>]
    /\ UNCHANGED <<cache, max_retries, retry_backoff, redis_on>>

NextClient ==
    \/ \E p \in Procs, d \in Datasets, ps \in ConcParamSets : Query(p, d, ps)
    \/ \E p \in Procs : CacheGet(p)
    \/ \E p \in Procs, rows \in RowSets : RemoteOk(p, rows)
    \/ \E p \in Procs : RemoteFail(p)
    \/ \E p \in Procs : Wake(p)
    \/ \E p \in Procs : CacheSet(p)
    \/ \E k \in CacheKeys : Expire(k)
    \/ \E p \in Procs : QueryDone(p)

SpecClient == InitClient /\ [][NextClient]_vars

SeqProcs == {1}

NextClientSeq ==
    \/ \E p \in SeqProcs, d \in Datasets, ps \in ParamSets : Query(p, d, ps)
    \/ \E p \in SeqProcs : CacheGet(p)
    \/ \E p \in SeqProcs, rows \in RowSets : RemoteOk(p, rows)
    \/ \E p \in SeqProcs : RemoteFail(p)
    \/ \E p \in SeqProcs : Wake(p)
    \/ \E p \in SeqProcs : CacheSet(p)
    \/ \E k \in CacheKeys : Expire(k)
    \/ \E p \in SeqProcs : QueryDone(p)

SpecClientSeq == InitClientSeq /\ [][NextClientSeq]_vars

\* C1: a call whose cache get hit makes no remote call and no backoff sleep,
\* and what it returns is the deserialized cached value; in every
\* interleaving of the concurrent calls.
C1_HitSkipsRemote ==
    \A p \in Procs :
        cached[p].some =>
            /\ calls[p] = <<>>
            /\ sleeps[p] = <<>>
            /\ qpc[p] = "returned"
            /\ qresult[p] = Some(JsonLoads(cached[p].data))

C1_Witness ==
    \E p, q \in Procs :
        /\ p # q
        /\ cached[p].some /\ cached[q].some
        /\ cache_key(p) = cache_key(q)
        /\ qpc[p] = "returned" /\ qpc[q] = "returned"

\* the one write of an execution that fetched rows
WriteOf(p) == [key |-> cache_key(p),
               entry |-> [value |-> JsonDumps(qresult[p].data), ttl |-> 300]]
Succeeded(p) == \E i \in 1..Len(calls[p]) : calls[p][i] = "ok"
WritesAsClaimed ==
    \A p \in Procs :
        /\ (qpc[p] = "returned" /\ Succeeded(p)) => writes[p] = <<WriteOf(p)>>
        /\ ~(qpc[p] = "returned" /\ Succeeded(p)) => writes[p] = <<>>

\* C13: with a cache store configured, an execution writes the cache exactly
\* when one of its remote attempts succeeded: once, under its own cache key,
\* with the TTL of 300 s, after the successful call and before it returns.
\* An execution that hits the cache or raises writes nothing, and the store
\* changes only by such a write or by the expiry of an entry.
C13_WriteOnSuccess ==
    /\ [](redis_on => WritesAsClaimed)
    /\ [][ (redis_on /\ cache' # cache) =>
              \/ \E p \in Procs :
                    /\ Succeeded(p)
                    /\ qpc[p] # "returned" /\ qpc'[p] = "returned"
                    /\ cache' = RedisSetex(cache, cache_key(p), WriteOf(p).entry)
              \/ \E k \in DOMAIN cache :
                    cache' = [cache EXCEPT ![k] = None]
          ]_vars

\* one execution returned what it fetched and wrote, another raised
C13_Witness ==
    \E p, q \in Procs :
        /\ redis_on
        /\ qpc[p] = "returned" /\ writes[p] = <<WriteOf(p)>>
        /\ cache[cache_key(p)] = Some(WriteOf(p).entry)
        /\ qpc[q] = "raised" /\ writes[q] = <<>>

\* C2: on a miss (or without a cache store) query raises only after exactly
\* max_retries + 1 failed remote attempts, and a successful attempt is the
\* last remote call and is followed by no sleep.
C2_RetryBound ==
    \A p \in Procs :
        LET n == Len(calls[p])
            failed == { i \in 1..n : calls[p][i] = "fail" } IN
        /\ qpc[p] = "raised" =>
              /\ n = max_retries + 1
              /\ Cardinality(failed) = max_retries + 1
        /\ \A i \in 1..n : calls[p][i] = "ok" =>
              /\ i = n
              /\ qpc[p] \in {"setex", "returned"}
              /\ Len(sleeps[p]) = n - 1
        /\ (n > 0 /\ qpc[p] \in {"setex", "returned"}) => calls[p][n] = "ok"
        /\ Cardinality(failed) <= max_retries + 1

\* a call that raised after its third failure with max_retries = 2, once the
\* cache already holds a value another execution fetched on its third attempt
C2_Witness ==
    \E p \in Procs :
        /\ max_retries = 2
        /\ qpc[p] = "raised" /\ calls[p] = <<"fail", "fail", "fail">>
        /\ \E k \in CacheKeys : cache[k].some

\* ======================================================================
\* QueryParser (core/query_parser.py)
\* ======================================================================
RECURSIVE JoinWords(_)
JoinWords(ws) ==
    IF ws = <<>> THEN <<>>
    ELSE IF Len(ws) = 1 THEN ws[1]
    ELSE ws[1] \o <<" ">> \o JoinWords(Tail(ws))

WordSeqs == UNION { [1..n -> Vocabulary] : n \in 0..MaxWords }
Texts == { JoinWords(ws) : ws \in WordSeqs } \cup Sentences

\* a regex group that did not match / that matched q[from..to]
NoCapture == [ok |-> FALSE, from |-> 0, to |-> 0]
Capture(from, to) == [ok |-> TRUE, from |-> from, to |-> to]
Group(q, c) == SubSeq(q, c.from, c.to)

\* (19|20)\d{2} matching at index i
YearAt(t, i) ==
    /\ i >= 1 /\ i + 3 <= Len(t)
    /\ (StartsAt(t, i, <<"1", "9">>) \/ StartsAt(t, i, <<"2", "0">>))
    /\ t[i + 2] \in Digits /\ t[i + 3] \in Digits

\* re.search(r"(19|20)\d{2}", lowered): the leftmost match
YearSearch(t) ==
    LET hits == { i \in 1..Len(t) : YearAt(t, i) } IN
    IF hits = {} THEN NoCapture ELSE Capture(SetMin(hits), SetMin(hits) + 3)

\* \s+([\w\s<accented>.&-]+) from index j: the whitespace is greedy and gives
\* one character back when nothing of the class follows it
NameCapture(q, j) ==
    LET wsEnd == RunEnd(q, j, Whitespace) IN
    IF wsEnd < j THEN NoCapture
    ELSE IF wsEnd < Len(q) /\ q[wsEnd + 1] \in NameChars
      THEN Capture(wsEnd + 1, RunEnd(q, wsEnd + 1, NameChars))
    ELSE IF wsEnd > j THEN Capture(wsEnd, wsEnd)
    ELSE NoCapture

\* re.search(r"entidad\s+([...]+)", query, re.IGNORECASE)
BuyerSearch(q) ==
    LET low == Lower(q)
        hits == { i \in 1..Len(q) :
                    StartsAt(low, i, W_entidad) /\ NameCapture(q, i + Len(W_entidad)).ok } IN
    IF hits = {} THEN NoCapture ELSE NameCapture(q, SetMin(hits) + Len(W_entidad))

\* proveedor(?:a)?\s+([...]+) matching at index i
SupplierAt(q, i) ==
    LET low == Lower(q)
        j == i + Len(W_proveedor)
        withA == IF StartsAt(low, j, <<"a">>) THEN NameCapture(q, j + 1) ELSE NoCapture IN
    IF ~StartsAt(low, i, W_proveedor) THEN NoCapture
    ELSE IF withA.ok THEN withA
    ELSE NameCapture(q, j)

\* re.search(r"proveedor(?:a)?\s+([...]+)", query, re.IGNORECASE)
SupplierSearch(q) ==
    LET hits == { i \in 1..Len(q) : SupplierAt(q, i).ok } IN
    IF hits = {} THEN NoCapture ELSE SupplierAt(q, SetMin(hits))

\* re.sub(r"(?:\b(?:19|20)\d{2})$", "", supplier)
StripTrailingYear(s) ==
    LET n == Len(s) IN
    IF n >= 4 /\ YearAt(s, n - 3) /\ (n = 4 \/ s[n - 4] \notin WordChars)
      THEN SubSeq(s, 1, n - 4)
      ELSE s

\* \s+\$?(\d+[\d.,]*) from index j
AmountTail(low, j) ==
    LET wsEnd == RunEnd(low, j, Whitespace)
        k0 == wsEnd + 1
        k == IF k0 <= Len(low) /\ low[k0] = "$" THEN k0 + 1 ELSE k0 IN
    IF wsEnd >= j /\ k <= Len(low) /\ low[k] \in Digits
      THEN Capture(k, RunEnd(low, k, AmountChars))
      ELSE NoCapture

\* mayor(?: a)?\s+\$?(\d+[\d.,]*) matching at index i
AmountAt(low, i) ==
    LET j == i + Len(W_mayor)
        withA == IF StartsAt(low, j, W_a) THEN AmountTail(low, j + Len(W_a)) ELSE NoCapture IN
    IF ~StartsAt(low, i, W_mayor) THEN NoCapture
    ELSE IF withA.ok THEN withA
    ELSE AmountTail(low, j)

\* re.search(r"mayor(?: a)?\s+\$?(\d+[\d.,]*)", lowered)
AmountSearch(low) ==
    LET hits == { i \in 1..Len(low) : AmountAt(low, i).ok } IN
    IF hits = {} THEN NoCapture ELSE AmountAt(low, SetMin(hits))

\* (?:top|primer[oa]s?)\s+(\d+) matching at index i
LimitKeywords == {W_top, W_primero, W_primera, W_primeros, W_primeras}
LimitTail(low, j) ==
    LET wsEnd == RunEnd(low, j, Whitespace) IN
    IF wsEnd >= j /\ wsEnd < Len(low) /\ low[wsEnd + 1] \in Digits
      THEN Capture(wsEnd + 1, RunEnd(low, wsEnd + 1, Digits))
      ELSE NoCapture
LimitAt(low, i) ==
    LET kws == { kw \in LimitKeywords : StartsAt(low, i, kw) /\ LimitTail(low, i + Len(kw)).ok } IN
    IF kws = {} THEN NoCapture
    ELSE LimitTail(low, i + Len(CHOOSE kw \in kws : TRUE))

\* re.search(r"(?:top|primer[oa]s?)\s+(\d+)", lowered)
LimitSearch(low) ==
    LET hits == { i \in 1..Len(low) : LimitAt(low, i).ok } IN
    IF hits = {} THEN NoCapture ELSE LimitAt(low, SetMin(hits))

\* GeminiResponse(entity, filters, metrics, limit)
GeminiResponse(entity, filters, metrics, limit) ==
    [entity |-> entity, filters |-> filters, metrics |-> metrics, limit |-> limit]

Filter(key, val) == [key |-> key, val |-> val]

\* lines 156-160 of _heuristic_parse: the entity of the lowered text
HeuristicEntity_AgencyFirst(lowered) ==
    IF Contains(lowered, W_entidad) \/ Contains(lowered, W_agency) THEN W_agencies
    ELSE IF Contains(lowered, W_proveedor) \/ Contains(lowered, W_supplier) THEN W_suppliers
    ELSE W_contracts
HeuristicEntity(lowered) ==
    IF Contains(lowered, W_proveedor) \/ Contains(lowered, W_supplier) THEN W_suppliers
    ELSE IF Contains(lowered, W_entidad) \/ Contains(lowered, W_agency) THEN W_agencies
    ELSE W_contracts

\* QueryParser._heuristic_parse
_heuristic_parse(query) ==
    LET lowered == Lower(query)
        entity == HeuristicEntity(lowered)
        year_match == YearSearch(lowered)
        year == IF year_match.ok
                  THEN <<Filter("year", PyInt(DigitsToInt(Group(lowered, year_match))))>>
                  ELSE <<>>
        buyer_match == BuyerSearch(query)
        buyer == IF buyer_match.ok
                   THEN <<Filter("buyer", PyStr(Strip(Group(query, buyer_match), Whitespace)))>>
                   ELSE <<>>
        supplier_match == SupplierSearch(query)
        supplier == IF supplier_match.ok
                      THEN Strip(StripTrailingYear(Strip(Group(query, supplier_match), Whitespace)),
                                 {" ", ",", ".", "-"})
                      ELSE <<>>
        supplierF == IF supplier # <<>> THEN <<Filter("supplier", PyStr(supplier))>> ELSE <<>>
        amount_match == AmountSearch(lowered)
        amount == IF amount_match.ok
                    THEN <<Filter("min_amount",
                             PyFloat(DigitsToInt(RemoveChars(Group(lowered, amount_match), {".", ","}))))>>
                    ELSE <<>>
        metrics == IF Contains(lowered, W_cuanto) \/ Contains(lowered, W_total)
                      \/ Contains(lowered, W_sum)
                     THEN <<PyStr(W_total_amount)>> ELSE <<>>
        limit_match == LimitSearch(lowered)
        parsed_limit == IF limit_match.ok THEN DigitsToInt(Group(lowered, limit_match)) ELSE 0
        limit == IF parsed_limit > 0 THEN PyInt(parsed_limit) ELSE PyNone
    IN GeminiResponse(PyStr(entity), year \o buyer \o supplierF \o amount, metrics, limit)

\* the outcome of a call: a returned value, or a raised exception
Returned(v) == [status |-> "returned", value |-> v, exc |-> ""]
Raised(e) == [status |-> "raised", value |-> PyNone, exc |-> e]
NoOutcome == [status |-> "none", value |-> PyNone, exc |-> ""]

\* the raw responses of the language model: a str is given by what json.loads
\* makes of it (a JSONDecodeError, or the decoded value); a JSON object with
\* the keys entity/filters/metrics/limit, an absent key being None to .get
JsonText(v) == [kind |-> "jsontext", ok |-> TRUE, value |-> v]
NotJsonText == [kind |-> "jsontext", ok |-> FALSE, value |-> PyNone]
Payload(entity, filters, metrics, limit) ==
    [kind |-> "object", entity |-> entity, filters |-> filters,
     metrics |-> metrics, limit |-> limit]

\* list(v)
ListOf(v) ==
    CASE v.kind = "list" -> v.items
      [] v.kind = "str" -> [i \in 1..Len(v.chars) |-> PyStr(<<v.chars[i]>>)]
      [] v.kind = "dict" -> [i \in 1..Len(v.items) |-> PyStr(<<v.items[i].key>>)]
      [] OTHER -> <<>>

\* isinstance(v, Iterable)
IsIterable(v) == v.kind \in {"list", "str", "dict", "object"}

\* the limit validation of _coerce_response (lines 134-140)
CoerceLimit(limit_value) ==
    IF limit_value.kind = "int" /\ limit_value.num > 0 THEN limit_value
    ELSE IF limit_value.kind = "bool" /\ limit_value.val THEN limit_value
    ELSE IF limit_value.kind = "str" /\ IsDigit(limit_value.chars)
            /\ DigitsToInt(limit_value.chars) > 0
      THEN PyInt(DigitsToInt(limit_value.chars))
    ELSE PyNone

\* QueryParser._coerce_response: returns None or a GeminiResponse, or raises
_coerce_response(raw_response) ==
    IF raw_response.kind = "none" THEN Returned(None)
    ELSE IF raw_response.kind = "jsontext" /\ ~raw_response.ok THEN Returned(None)
    ELSE IF raw_response.kind \notin {"jsontext", "object"} THEN Returned(None)
    ELSE
      LET payload == IF raw_response.kind = "jsontext" THEN raw_response.value
                     ELSE raw_response IN
      IF payload.kind # "object" THEN Raised("AttributeError")
      ELSE
        LET entity == payload.entity
            filters == PyOr(payload.filters, PyDict(<<>>))
            metrics == PyOr(payload.metrics, PyList(<<>>))
            limit == CoerceLimit(payload.limit) IN
        IF filters.kind # "dict" \/ ~IsIterable(metrics) THEN Returned(None)
        ELSE Returned(Some(GeminiResponse(entity, filters.items, ListOf(metrics), limit)))

\* the numeric value of an int or a bool
NumOf(v) == IF v.kind = "bool" THEN (IF v.val THEN 1 ELSE 0) ELSE v.num

\* QueryParams.__post_init__: the exception it raises, "" when it raises none
PostInit_NoStrip(entity, limit) ==
    IF ~Truthy(entity) THEN "ValueError"
    ELSE IF limit.kind # "none" /\ NumOf(limit) <= 0 THEN "ValueError"
    ELSE ""
PostInit(entity, limit) ==
    IF ~Truthy(entity) THEN "ValueError"
    ELSE IF entity.kind # "str" THEN "AttributeError"
    ELSE IF Strip(entity.chars, Whitespace) = <<>> THEN "ValueError"
    ELSE IF limit.kind # "none" /\ NumOf(limit) <= 0 THEN "ValueError"
    ELSE ""

\* QueryParams(entity, filters, metrics, raw_query, limit)
QueryParams(entity, filters, metrics, raw_query, limit) ==
    IF PostInit(entity, limit) # "" THEN Raised(PostInit(entity, limit))
    ELSE Returned([entity |-> entity, filters |-> filters, metrics |-> metrics,
                   raw_query |-> raw_query, limit |-> limit])

\* the language-model client of a QueryParser: none, or what generate() does
NoLLM == [kind |-> "absent", raw |-> PyNone]
LLMRaises == [kind |-> "raises", raw |-> PyNone]
LLMReturns(raw) == [kind |-> "returns", raw |-> raw]

\* lines 77-81 of parse: the response obtained from the model, None if none
LLMResponse(llm) ==
    IF llm.kind # "returns" THEN None
    ELSE LET c == _coerce_response(llm.raw) IN
         IF c.status = "raised" THEN None ELSE c.value

\* lines 86-92 of parse: the QueryParams assembled from a response
Assemble(response, query) ==
    QueryParams(PyOr(response.entity, PyStr(W_contracts)), response.filters,
                response.metrics, query, response.limit)

\* QueryParser.parse as a function of the text and the model's behaviour
parse(query, llm) ==
    LET r == LLMResponse(llm)
        response == IF r.some THEN r.data ELSE _heuristic_parse(query) IN
    Assemble(response, query)

\* ------------------------------------------------- QueryParser, inputs
W_Bogota == <<"B", "o", "g", "o", "t", "a_acute">>
BasePayload ==
    Payload(PyStr(W_contracts), PyDict(<<Filter("buyer", PyStr(W_Bogota))>>),
            PyList(<<PyStr(W_total_amount)>>), PyNone)
EntityValues == { PyNone, PyStr(<<>>), PyStr(<<" ", " ">>), PyInt(5), PyStr(W_suppliers) }
FiltersValues == { PyNone, PyDict(<<>>), PyInt(0), PyList(<<PyInt(1)>>),
                   PyDict(<<Filter("year", PyInt(2023))>>) }
MetricsValues == { PyNone, PyInt(0), PyInt(7), PyStr(<<"a", "b">>), PyList(<<>>) }
LimitValues == { PyInt(20), PyInt(0), PyInt(-1), PyBool(TRUE), PyFloat(2),
                 PyStr(<<"1", "5">>), PyStr(<<"0">>), PyStr(<<"a", "b", "c">>) }
\* the JSON objects the model answers with: the object of the tests, with one
\* key at a time given another value
Payloads ==
    {BasePayload}
    \cup { [BasePayload EXCEPT !.entity = v] : v \in EntityValues }
    \cup { [BasePayload EXCEPT !.filters = v] : v \in FiltersValues }
    \cup { [BasePayload EXCEPT !.metrics = v] : v \in MetricsValues }
    \cup { [BasePayload EXCEPT !.limit = v] : v \in LimitValues }
RawResponses ==
    {PyNone, NotJsonText, JsonText(PyList(<<PyInt(1), PyInt(2)>>)), JsonText(PyNone), PyInt(7)}
    \cup Payloads \cup { JsonText(p) : p \in Payloads }
LLMs == {NoLLM, LLMRaises} \cup { LLMReturns(r) : r \in RawResponses }

\* ------------------------------------------------- QueryParser.parse, steps
InitParse ==
    /\ ptext \in Texts
    /\ pllm \in LLMs
    /\ ppc = "start"
    /\ praw = PyNone
    /\ presponse = None
    /\ pheur = FALSE
    /\ pout = NoOutcome
    /\ ClientOff
    /\ ResolveOff
    /\ BuildOff
    /\ SearchOff
    /\ ParamsOff

\* lines 73-81: raw_response = self._llm_client.generate(prompt), when a client
\* is configured; an exception of generate is logged and swallowed
Generate ==
    /\ ppc = "start"
    /\ IF pllm.kind = "returns"
         THEN /\ praw' = pllm.raw
              /\ ppc' = "coerce"
         ELSE /\ praw' = praw
              /\ ppc' = "fallback"
    /\ UNCHANGED <<ptext, pllm, presponse, pheur, pout>>
    /\ UNCHANGED nonParseVars

\* line 79: response = self._coerce_response(raw_response), inside the try
Coerce ==
    /\ ppc = "coerce"
    /\ LET c == _coerce_response(praw) IN
         presponse' = IF c.status = "raised" THEN None ELSE c.value
    /\ ppc' = "fallback"
    /\ UNCHANGED <<ptext, pllm, praw, pheur, pout>>
    /\ UNCHANGED nonParseVars

\* lines 83-84: if response is None: response = self._heuristic_parse(query)
Fallback ==
    /\ ppc = "fallback"
    /\ IF ~presponse.some
         THEN /\ presponse' = Some(_heuristic_parse(ptext))
              /\ pheur' = TRUE
         ELSE UNCHANGED <<presponse, pheur>>
    /\ ppc' = "assemble"
    /\ UNCHANGED <<ptext, pllm, praw, pout>>
    /\ UNCHANGED nonParseVars

\* lines 86-94: params = QueryParams(...); return params
AssembleParams ==
    /\ ppc = "assemble"
    /\ pout' = Assemble(presponse.data, ptext)
    /\ ppc' = "done"
    /\ UNCHANGED <<ptext, pllm, praw, presponse, pheur>>
    /\ UNCHANGED nonParseVars

NextParse == Generate \/ Coerce \/ Fallback \/ AssembleParams

SpecParse == InitParse /\ [][NextParse]_vars

\* the executions under way with the cache key k among the callers 1..n, and
\* the remote calls they have issued
RECURSIVE ExecutionsOf(_, _)
ExecutionsOf(k, n) ==
    IF n = 0 THEN 0
    ELSE (IF qpc[n] # "idle" /\ cache_key(n) = k THEN 1 ELSE 0) + ExecutionsOf(k, n - 1)
RECURSIVE RemoteCalls(_, _)
RemoteCalls(k, n) ==
    IF n = 0 THEN 0
    ELSE (IF qpc[n] # "idle" /\ cache_key(n) = k THEN Len(calls[n]) ELSE 0)
           + RemoteCalls(k, n - 1)
DuplicationBounded ==
    /\ \A k \in CacheKeys :
          RemoteCalls(k, NumCalls) <= ExecutionsOf(k, NumCalls) * (max_retries + 1)
    /\ \A p \in Procs :
          writes[p] # <<>> =>
            /\ Succeeded(p)
            /\ writes[p] = <<WriteOf(p)>>
            /\ WriteOf(p).key = _cache_key(qin[p].dataset, qin[p].params)

\* C15: concurrent executions with the same cache key may each miss and call
\* the remote service, but N of them issue at most N * (max_retries + 1)
\* remote calls; every cache write stores the rows its own execution fetched
\* for that dataset and params; and each write replaces what the store held,
\* so the store ends with the value of the last writer.
C15_BoundedDuplication ==
    /\ []DuplicationBounded
    /\ [][ \A p \in Procs :
              (qpc[p] = "setex" /\ qpc'[p] = "returned") =>
                  /\ cache'[cache_key(p)] = Some(WriteOf(p).entry)
                  /\ \A k \in DOMAIN cache : k # cache_key(p) => cache'[k] = cache[k]
          ]_vars

\* two executions with one key both missed, both fetched, and the store
\* holds the rows of one of them, which differ from the other's
C15_Witness ==
    \E p, q \in Procs :
        /\ p # q
        /\ redis_on
        /\ cache_key(p) = cache_key(q)
        /\ ~cached[p].some /\ ~cached[q].some
        /\ qpc[p] = "returned" /\ qpc[q] = "returned"
        /\ Succeeded(p) /\ Succeeded(q)
        /\ Len(calls[p]) + Len(calls[q]) > 2
        /\ qresult[p] # qresult[q]
        /\ cache[cache_key(q)] = Some(WriteOf(q).entry)

\* SpecClientKeys: two callers of one client with one retry, passing their
\* params in any insertion order
KeyProcs == {1, 2}
InitClientKeys ==
    /\ InitCalls
    /\ max_retries = 1
    /\ retry_backoff = DefaultBackoff

NextClientKeys ==
    \/ \E p \in KeyProcs, d \in Datasets, ps \in ParamSets : Query(p, d, ps)
    \/ \E p \in KeyProcs : CacheGet(p)
    \/ \E p \in KeyProcs, rows \in RowSets : RemoteOk(p, rows)
    \/ \E p \in KeyProcs : RemoteFail(p)
    \/ \E p \in KeyProcs : Wake(p)
    \/ \E p \in KeyProcs : CacheSet(p)
    \/ \E k \in CacheKeys : Expire(k)
    \/ \E p \in KeyProcs : QueryDone(p)

SpecClientKeys == InitClientKeys /\ [][NextClientKeys]_vars

\* two params mappings hold the same key/value pairs
SamePairs(a, b) == { a[i] : i \in 1..Len(a) } = { b[i] : i \in 1..Len(b) }

\* C17: the cache key is a function of the dataset and of the key/value
\* pairs of params, whatever the insertion order of the keys, so a value
\* cached by one call is a hit for a call with the same pairs.
C17_KeyIgnoresOrder ==
    [][ /\ \A d \in Datasets, a, b \in ParamSets :
              SamePairs(a, b) => _cache_key(d, a) = _cache_key(d, b)
        /\ \A p \in Procs, ps \in ParamSets :
              ( /\ qpc[p] = "get" /\ qpc'[p] # "get"
                /\ SamePairs(ps, qin[p].params)
                /\ RedisGet(cache, _cache_key(qin[p].dataset, ps)).some ) =>
                  /\ qpc'[p] = "returned"
                  /\ qresult'[p] =
                       Some(JsonLoads(RedisGet(cache, _cache_key(qin[p].dataset, ps)).data.value))
      ]_vars

\* one call cached its rows and a call with the keys in the other order hit
C17_Witness ==
    \E p, q \in Procs :
        /\ qin[p].dataset = qin[q].dataset
        /\ qin[p].params # qin[q].params
        /\ SamePairs(qin[p].params, qin[q].params)
        /\ writes[p] # <<>>
        /\ qpc[q] = "returned" /\ cached[q].some /\ calls[q] = <<>>
        /\ qresult[q] = qresult[p]
        /\ qresult[q].data # <<>>

\* the failed remote attempts of an execution so far
Failures(p) == Cardinality({ i \in 1..Len(calls[p]) : calls[p][i] = "fail" })

\* C14: after its k-th failed attempt (k = 1..max_retries) query sleeps
\* exactly k * retry_backoff before attempt k + 1, so the sleeps are strictly
\* increasing for a positive base; it does not sleep before the first
\* attempt nor after the final failed attempt that raises.
C14_LinearBackoff ==
    \A p \in Procs :
        /\ Len(sleeps[p]) = IF qpc[p] = "raised" THEN Failures(p) - 1 ELSE Failures(p)
        /\ Len(sleeps[p]) <= max_retries
        /\ \A k \in 1..Len(sleeps[p]) :
              /\ sleeps[p][k] = k * retry_backoff
              /\ calls[p][k] = "fail"
              /\ (retry_backoff > 0 /\ k > 1) => sleeps[p][k] > sleeps[p][k - 1]
        /\ Len(calls[p]) <= Len(sleeps[p]) + 1
        /\ qpc[p] = "sleep" => Len(calls[p]) = Len(sleeps[p])

C14_Witness ==
    \E p \in Procs :
        /\ max_retries = 3 /\ retry_backoff = 2
        /\ qpc[p] = "raised"
        /\ sleeps[p] = <<2, 4, 6>>
        /\ Len(calls[p]) = 4

\* ---------------------------------------------------------------- claims
\* a valid QueryParams: a non-blank str entity, and a limit absent or > 0
ValidParams(qp) ==
    /\ qp.entity.kind = "str"
    /\ \E i \in 1..Len(qp.entity.chars) : qp.entity.chars[i] \notin Whitespace
    /\ qp.limit.kind = "none" \/ NumOf(qp.limit) > 0

\* C3: parse never fails: whatever the text and whatever the language model
\* does, parse returns a valid QueryParams and raises nothing.
C3_ParseNeverFails ==
    ppc = "done" => pout.status = "returned" /\ ValidParams(pout.value)

\* C5: the result of parse comes from one source.  With a usable model answer
\* (an object, or JSON text of one, whose filters are a mapping and whose
\* metrics are iterable once the defaults for missing values are applied) it
\* carries the model's entity ("contracts" when the model gave none), filters
\* and metrics and the heuristic extractor is not run; otherwise it is what
\* parse gives for the same text without a model.  raw_query is the text.
C5_Usable(llm) ==
    /\ llm.kind = "returns"
    /\ llm.raw.kind \in {"jsontext", "object"}
    /\ LET o == IF llm.raw.kind = "jsontext" THEN llm.raw.value ELSE llm.raw IN
        /\ o.kind = "object"
        /\ PyOr(o.filters, PyDict(<<>>)).kind = "dict"
        /\ IsIterable(PyOr(o.metrics, PyList(<<>>)))
C5_SingleSource ==
    ppc = "done" =>
        /\ pout.status = "returned"
        /\ pout.value.raw_query = ptext
        /\ IF C5_Usable(pllm)
             THEN LET o == IF pllm.raw.kind = "jsontext" THEN pllm.raw.value
                           ELSE pllm.raw IN
                  /\ ~pheur
                  /\ pout.value.entity = PyOr(o.entity, PyStr(W_contracts))
                  /\ pout.value.filters = PyOr(o.filters, PyDict(<<>>)).items
                  /\ pout.value.metrics = ListOf(PyOr(o.metrics, PyList(<<>>)))
             ELSE pout = parse(ptext, NoLLM)

\* C10: when the text holds a 4-digit year token (a run of exactly four
\* digits that starts with 19 or 20), the filters of the heuristic path hold
\* `year` as the integer of such a token, whatever else the text holds.
YearTokenAt(t, i) ==
    /\ YearAt(t, i)
    /\ (i = 1 \/ t[i - 1] \notin Digits)
    /\ (i + 3 = Len(t) \/ t[i + 4] \notin Digits)
YearTokens(t) == { DigitsToInt(SubSeq(t, i, i + 3)) : i \in { k \in 1..Len(t) : YearTokenAt(t, k) } }
C10_YearToken ==
    (ppc = "done" /\ pheur /\ YearTokens(ptext) # {} /\ pout.status = "returned") =>
        \E i \in 1..Len(pout.value.filters) :
            /\ pout.value.filters[i].key = "year"
            /\ pout.value.filters[i].val.kind = "int"
            /\ pout.value.filters[i].val.num \in YearTokens(ptext)

\* the keyword w occurs in the text t, whatever the case of its letters
Occurs(t, w) ==
    \E i \in 1..(Len(t) - Len(w) + 1) :
        \A j \in 1..Len(w) : LowerChar(t[i + j - 1]) = w[j]
SupplierToken(t) == Occurs(t, W_proveedor) \/ Occurs(t, W_supplier)
AgencyToken(t) == Occurs(t, W_entidad) \/ Occurs(t, W_agency)

\* C11: with no language model, parse returns for every non-empty text and
\* its entity is 'suppliers' when a supplier keyword occurs (even beside an
\* agency keyword), else 'agencies' when an agency keyword occurs, else
\* 'contracts'; the entity is never empty.
C11_EntityPriority ==
    (ppc = "done" /\ pllm = NoLLM /\ ptext # <<>>) =>
        /\ pout.status = "returned"
        /\ pout.value.entity.kind = "str"
        /\ pout.value.entity.chars # <<>>
        /\ pout.value.entity.chars =
             IF SupplierToken(ptext) THEN W_suppliers
             ELSE IF AgencyToken(ptext) THEN W_agencies
             ELSE W_contracts

C11_Witness ==
    /\ ppc = "done"
    /\ pllm = NoLLM
    /\ SupplierToken(ptext)
    /\ AgencyToken(ptext)
    /\ \E i \in 1..Len(ptext) : ptext[i] # LowerChar(ptext[i])
    /\ pout.status = "returned"
    /\ pout.value.entity = PyStr(W_suppliers)

\* ======================================================================
\* EntityResolver (core/entity_resolver.py).  Distances and scores are
\* floats counted in hundredths: PyFrac(25) is 0.25 and the score 1.0 is 100.
\* ======================================================================
\* ResolvedEntity(name, score, metadata)
ResolvedEntity(name, score, metadata) ==
    [name |-> name, score |-> score, metadata |-> metadata]

\* a float given in hundredths
PyFrac(h) == [kind |-> "frac", hundredths |-> h]

\* float(v): the hundredths, or the exception it raises
FloatExc(v) ==
    CASE v.kind \in {"int", "float", "frac", "bool"} -> ""
      [] v.kind = "str" -> IF IsDigit(v.chars) THEN "" ELSE "ValueError"
      [] OTHER -> "TypeError"
FloatOf(v) ==
    CASE v.kind \in {"int", "float"} -> 100 * v.num
      [] v.kind = "frac" -> v.hundredths
      [] v.kind = "bool" -> IF v.val THEN 100 ELSE 0
      [] v.kind = "str" -> 100 * DigitsToInt(v.chars)
      [] OTHER -> 0

\* the similarity-search client: none, one whose calls raise, a collection
\* holding ranked hits (query answers the n_results nearest), or one that
\* answers every query with the given object
NoChroma == [kind |-> "absent"]
ChromaRaises == [kind |-> "raises"]
ChromaStore(hits) == [kind |-> "store", hits |-> hits]
ChromaAnswers(results) == [kind |-> "answers", results |-> results]

Hit(doc, metadata, distance) == [doc |-> doc, metadata |-> metadata, distance |-> distance]
\* the query result of chromadb: parallel lists, one inner list per query text
QueryResult(documents, metadatas, distances) ==
    [kind |-> "queryresult", documents |-> documents, metadatas |-> metadatas,
     distances |-> distances]
ResultOfHits(hits) ==
    QueryResult(PyList(<<PyList([i \in 1..Len(hits) |-> hits[i].doc])>>),
                PyList(<<PyList([i \in 1..Len(hits) |-> hits[i].metadata])>>),
                PyList(<<PyList([i \in 1..Len(hits) |-> hits[i].distance])>>))

Min2(a, b) == IF a <= b THEN a ELSE b

\* collection.query(query_texts=[mention], n_results=top_k)
ChromaQuery(chroma, top_k) ==
    IF chroma.kind = "store"
      THEN ResultOfHits(SubSeq(chroma.hits, 1, Min2(top_k, Len(chroma.hits))))
      ELSE chroma.results

\* the candidate synthesised from the mention
MentionCandidate_ZeroScore(mention) == ResolvedEntity(PyStr(mention), 0, PyDict(<<>>))
MentionCandidate(mention) == ResolvedEntity(PyStr(mention), 100, PyDict(<<>>))

\* EntityResolver._search_chroma: the candidates, or the exception that
\* escapes it (only get_or_create_collection and query are inside the try)
_search_chroma(mention, top_k, chroma) ==
    IF chroma.kind = "absent" THEN Returned(<<MentionCandidate(mention)>>)
    ELSE IF chroma.kind = "raises" THEN Returned(<<MentionCandidate(mention)>>)
    ELSE
      LET results == ChromaQuery(chroma, top_k) IN
      IF results.kind # "queryresult" THEN Raised("AttributeError")
      ELSE
        LET documents == PyOr(results.documents, PyList(<<PyList(<<>>)>>))
            metadatas == PyOr(results.metadatas, PyList(<<PyList(<<>>)>>))
            distances == PyOr(results.distances, PyList(<<PyList(<<>>)>>))
            lists == <<documents, metadatas, distances>> IN
        IF \E k \in 1..3 : lists[k].kind # "list" THEN Raised("TypeError")
        ELSE IF \E k \in 1..3 : lists[k].items[1].kind # "list" THEN Raised("TypeError")
        ELSE
          LET docs == documents.items[1].items
              metas == metadatas.items[1].items
              dists == distances.items[1].items
              n == Min2(Len(docs), Min2(Len(metas), Len(dists)))
              bad == { i \in 1..n : FloatExc(dists[i]) # "" } IN
          IF bad # {} THEN Raised(FloatExc(dists[SetMin(bad)]))
          ELSE IF n = 0
            THEN Returned(<<ResolvedEntity(PyStr(mention), 0, PyDict(<<>>))>>)
          ELSE Returned([i \in 1..n |->
                   ResolvedEntity(docs[i], 100 - FloatOf(dists[i]),
                                  PyOr(metas[i], PyDict(<<>>)))])

\* the reranking client: none, one whose rerank raises, or one that answers
\* with the given response object
NoCohere == [kind |-> "absent"]
CohereRaises == [kind |-> "raises"]
CohereAnswers(response) == [kind |-> "answers", response |-> response]
RerankItem(index, relevance_score) == [index |-> index, relevance_score |-> relevance_score]
RerankResponse(results) == [kind |-> "response", results |-> results]

\* the loop of _rerank_with_cohere over response.results[k..]
RECURSIVE RerankLoop(_, _, _)
RerankLoop(items, k, candidates) ==
    IF k > Len(items) THEN Returned(<<>>)
    ELSE
      LET item == items[k]
          known == item.index >= 0 /\ item.index < Len(candidates)
          rest == RerankLoop(items, k + 1, candidates) IN
      IF ~known THEN rest
      ELSE IF FloatExc(item.relevance_score) # "" THEN Raised(FloatExc(item.relevance_score))
      ELSE IF rest.status = "raised" THEN rest
      ELSE Returned(<<ResolvedEntity(candidates[item.index + 1].name,
                                     FloatOf(item.relevance_score),
                                     candidates[item.index + 1].metadata)>> \o rest.value)

\* EntityResolver._rerank_with_cohere (only the rerank call is inside the try)
_rerank_with_cohere(candidates, cohere) ==
    IF cohere.kind = "raises" THEN Returned(candidates)
    ELSE IF cohere.response.kind # "response" THEN Raised("AttributeError")
    ELSE
      LET reranked == RerankLoop(cohere.response.results, 1, candidates) IN
      IF reranked.status = "raised" THEN reranked
      ELSE IF reranked.value # <<>> THEN reranked ELSE Returned(candidates)

\* `if self._cohere_client is not None and len(candidates) > 1`
RerankWanted(cohere, candidates) == cohere.kind # "absent" /\ Len(candidates) > 1

\* EntityResolver.resolve as a function of the mention and the capabilities
resolve(mention, top_k, chroma, cohere) ==
    LET found == _search_chroma(mention, top_k, chroma) IN
    IF found.status = "raised" THEN found
    ELSE IF found.value = <<>> THEN Returned(None)
    ELSE
      LET ranked == IF RerankWanted(cohere, found.value)
                      THEN _rerank_with_cohere(found.value, cohere)
                      ELSE found IN
      IF ranked.status = "raised" THEN ranked
      ELSE Returned(Some(ranked.value[1]))

\* ------------------------------------------------ EntityResolver, inputs
W_Contracts == <<"C", "o", "n", "t", "r", "a", "c", "t", "s">>
W_ACME == <<"A", "C", "M", "E">>
W_secop123 == <<"s", "e", "c", "o", "p", "-", "1", "2", "3">>
W_far == <<"f", "a", "r">>
Mentions == {W_contracts, W_suppliers, <<>>}
\* what the index may hold: the entity of tests/test_soql_builder.py, a hit
\* without metadata, and a hit whose distance is not a number
HitPool == { Hit(PyStr(W_Contracts), PyDict(<<Filter("dataset_id", PyStr(W_secop123))>>), PyFrac(10)),
             Hit(PyStr(W_ACME), PyNone, PyFrac(25)),
             Hit(PyStr(W_ACME), PyNone, PyStr(W_far)) }
HitLists == UNION { { h \in [1..n -> HitPool] : \A i, j \in 1..n : h[i] = h[j] => i = j }
                    : n \in 0..MaxHits }
OddResults == { PyNone,
                QueryResult(PyNone, PyNone, PyNone),
                QueryResult(PyList(<<PyList(<<PyStr(W_ACME), PyStr(W_Contracts)>>)>>),
                            PyList(<<PyList(<<PyNone>>)>>),
                            PyList(<<PyList(<<PyFrac(25), PyFrac(40)>>)>>)),
                QueryResult(PyList(<<PyNone>>), PyNone, PyNone) }
Chromas == {NoChroma, ChromaRaises} \cup { ChromaStore(h) : h \in HitLists }
             \cup { ChromaAnswers(r) : r \in OddResults }
RerankItems == { RerankItem(0, PyFrac(30)), RerankItem(1, PyFrac(90)),
                 RerankItem(7, PyFrac(99)), RerankItem(1, PyStr(W_far)) }
RerankLists == UNION { [1..n -> RerankItems] : n \in 0..MaxRerank }
Coheres == {NoCohere, CohereRaises, CohereAnswers(PyNone)}
             \cup { CohereAnswers(RerankResponse(l)) : l \in RerankLists }

\* ------------------------------------------------ EntityResolver.resolve, steps
InitResolve ==
    /\ rmention \in Mentions
    /\ rtopk \in 1..MaxTopK
    /\ rchroma \in Chromas
    /\ rcohere \in Coheres
    /\ rpc = "start"
    /\ rcands = <<>>
    /\ rreranked = FALSE
    /\ rout = NoOutcome
    /\ ClientOff
    /\ ParseOff
    /\ BuildOff
    /\ SearchOff
    /\ ParamsOff

\* line 37: candidates = self._search_chroma(mention, top_k); lines 38-40
SearchChroma ==
    /\ rpc = "start"
    /\ LET found == _search_chroma(rmention, rtopk, rchroma) IN
        IF found.status = "raised"
          THEN /\ rout' = found
               /\ rpc' = "done"
               /\ UNCHANGED rcands
          ELSE IF found.value = <<>>
            THEN /\ rout' = Returned(None)
                 /\ rpc' = "done"
                 /\ UNCHANGED rcands
          ELSE /\ rcands' = found.value
               /\ rpc' = "rank"
               /\ UNCHANGED rout
    /\ UNCHANGED <<rmention, rtopk, rchroma, rcohere, rreranked>>
    /\ UNCHANGED nonResolveVars

\* lines 42-43: candidates = self._rerank_with_cohere(mention, candidates)
Rerank ==
    /\ rpc = "rank"
    /\ RerankWanted(rcohere, rcands)
    /\ rreranked' = TRUE
    /\ LET ranked == _rerank_with_cohere(rcands, rcohere) IN
        IF ranked.status = "raised"
          THEN /\ rout' = ranked
               /\ rpc' = "done"
               /\ UNCHANGED rcands
          ELSE /\ rcands' = ranked.value
               /\ rpc' = "pick"
               /\ UNCHANGED rout
    /\ UNCHANGED <<rmention, rtopk, rchroma, rcohere>>
    /\ UNCHANGED nonResolveVars

\* line 42: the condition is false
SkipRerank ==
    /\ rpc = "rank"
    /\ ~RerankWanted(rcohere, rcands)
    /\ rpc' = "pick"
    /\ UNCHANGED <<rmention, rtopk, rchroma, rcohere, rcands, rreranked, rout>>
    /\ UNCHANGED nonResolveVars

\* lines 45-47: return candidates[0]
PickTop ==
    /\ rpc = "pick"
    /\ rout' = Returned(Some(rcands[1]))
    /\ rpc' = "done"
    /\ UNCHANGED <<rmention, rtopk, rchroma, rcohere, rcands, rreranked>>
    /\ UNCHANGED nonResolveVars

NextResolve == SearchChroma \/ Rerank \/ SkipRerank \/ PickTop

SpecResolve == InitResolve /\ [][NextResolve]_vars

\* C6: without a similarity-search capability, or when its call raises,
\* resolve returns the mention itself with score 1.0 and empty metadata, for
\* every mention and top_k, and a configured reranker is not invoked.
C6_IdentityFallback ==
    (rpc = "done" /\ rchroma.kind \in {"absent", "raises"}) =>
        /\ rout = Returned(Some(ResolvedEntity(PyStr(rmention), 100, PyDict(<<>>))))
        /\ ~rreranked

C6_Witness ==
    /\ rpc = "done"
    /\ rchroma.kind = "raises"
    /\ rcohere.kind = "answers"
    /\ rmention = <<>>
    /\ rout.status = "returned"

\* the items of the reranker's answer that are usable: the index names a
\* candidate and the relevance score is a number
UsableItems(cohere, candidates) ==
    IF cohere.kind # "answers" \/ cohere.response.kind # "response" THEN <<>>
    ELSE SelectSeq(cohere.response.results,
                   LAMBDA item : /\ item.index \in 0..(Len(candidates) - 1)
                                 /\ item.relevance_score.kind \in {"int", "float", "frac", "bool"})

\* C16: resolve invokes the reranker only when one is configured and the
\* similarity search gave more than one candidate.  With at least one usable
\* item the result is the candidate the first usable item names, with that
\* item's relevance score and the candidate's name and metadata; when the
\* reranker call fails or no item is usable, it is the first candidate of
\* the similarity-ranked list with its score unchanged.
C16_RerankOutcome ==
    LET found == _search_chroma(rmention, rtopk, rchroma) IN
    (rpc = "done" /\ found.status = "returned") =>
        /\ rreranked => (rcohere.kind # "absent" /\ Len(found.value) > 1)
        /\ (rcohere.kind # "absent" /\ Len(found.value) > 1) =>
              LET usable == UsableItems(rcohere, found.value) IN
              IF usable # <<>>
                THEN LET named == found.value[usable[1].index + 1] IN
                     rout = Returned(Some(ResolvedEntity(named.name,
                                                         FloatOf(usable[1].relevance_score),
                                                         named.metadata)))
                ELSE rout = Returned(Some(found.value[1]))

\* ======================================================================
\* SoQLBuilder (core/soql_builder.py).  The rendered clauses are strings.
\* ======================================================================
\* sep.join(strs)
RECURSIVE Join(_, _)
Join(strs, sep) ==
    IF strs = <<>> THEN ""
    ELSE IF Len(strs) = 1 THEN strs[1]
    ELSE strs[1] \o sep \o Join(Tail(strs), sep)

\* value.replace("'", "''")
RECURSIVE EscapeQuotes(_)
EscapeQuotes(chars) ==
    IF chars = <<>> THEN ""
    ELSE (IF Head(chars) = "'" THEN "''" ELSE Head(chars)) \o EscapeQuotes(Tail(chars))

\* isinstance(value, (int, float)): bool is a subclass of int
IsNumber(v) == v.kind \in {"int", "float", "bool"}

\* str(value) of a scalar, as f"{value}" formats it
StrOf(v) ==
    CASE v.kind = "int" -> IntToStr(v.num)
      [] v.kind = "float" -> IntToStr(v.num) \o ".0"
      [] v.kind = "bool" -> IF v.val THEN "True" ELSE "False"
      [] v.kind = "none" -> "None"
      [] v.kind = "str" -> Str(v.chars)

\* json.dumps(value)
RECURSIVE JsonEncode(_)
JsonEncode(v) ==
    CASE v.kind = "none" -> "null"
      [] v.kind = "bool" -> IF v.val THEN "true" ELSE "false"
      [] v.kind = "int" -> IntToStr(v.num)
      [] v.kind = "float" -> IntToStr(v.num) \o ".0"
      [] v.kind = "str" -> "\"" \o Str(v.chars) \o "\""
      [] v.kind = "list" ->
           "[" \o Join([i \in 1..Len(v.items) |-> JsonEncode(v.items[i])], ", ") \o "]"
      [] v.kind = "dict" ->
           "{" \o Join([i \in 1..Len(v.items) |->
                          "\"" \o v.items[i].key \o "\": " \o JsonEncode(v.items[i].val)], ", ")
               \o "}"

\* SoQLBuilder._quote
_quote(value) ==
    IF IsNumber(value) THEN StrOf(value)
    ELSE "'" \o (IF value.kind = "str" THEN EscapeQuotes(value.chars) ELSE StrOf(value)) \o "'"

\* `for v in value`: the elements of a list, the keys of a dict
IterOf(value) ==
    IF value.kind = "dict"
      THEN [i \in 1..Len(value.items) |-> PyStr(<<value.items[i].key>>)]
      ELSE value.items

\* SoQLBuilder._render_filter
_render_filter(key, value) ==
    IF IsNumber(value) THEN key \o " = " \o StrOf(value)
    ELSE IF value.kind = "str"
      THEN "upper(" \o key \o ") LIKE upper('%" \o EscapeQuotes(value.chars) \o "%')"
    ELSE IF value.kind \in {"list", "dict"}
      THEN key \o " IN ("
             \o Join([i \in 1..Len(IterOf(value)) |-> _quote(IterOf(value)[i])], ", ") \o ")"
    ELSE key \o " = " \o JsonEncode(value)

\* filter(None, clauses)
NonEmpty(strs) == SelectSeq(strs, LAMBDA c : c # "")

\* SoQLBuilder._build_where
_build_where(filters) ==
    Join(NonEmpty([i \in 1..Len(filters) |-> _render_filter(filters[i].key, filters[i].val)]),
         " AND ")

\* d.get(key): the value under the key, None when the key is absent
HasKey(d, key) == \E i \in 1..Len(d.items) : d.items[i].key = key
DictGet(d, key) ==
    IF HasKey(d, key) THEN d.items[CHOOSE i \in 1..Len(d.items) : d.items[i].key = key].val
    ELSE PyNone

\* `entity and entity.metadata.get("dataset_id")`
CarriesDataset(entity) == entity.some /\ Truthy(DictGet(entity.data.metadata, "dataset_id"))

\* self._dataset_map.get(params.entity, params.entity)
MapEntry(dataset_map, entity) ==
    IF HasKey(dataset_map, Str(entity.chars)) THEN DictGet(dataset_map, Str(entity.chars))
    ELSE entity

\* SoQLBuilder._resolve_dataset
_resolve_dataset_MapFirst(params, entity, dataset_map) ==
    IF HasKey(dataset_map, Str(params.entity.chars)) THEN MapEntry(dataset_map, params.entity)
    ELSE IF CarriesDataset(entity) THEN DictGet(entity.data.metadata, "dataset_id")
    ELSE params.entity
_resolve_dataset(params, entity, dataset_map) ==
    IF CarriesDataset(entity) THEN DictGet(entity.data.metadata, "dataset_id")
    ELSE MapEntry(dataset_map, params.entity)

\* ", ".join(params.metrics): the joined text, or the TypeError of a
\* metric that is not a str
SelectClause(metrics) ==
    IF \E i \in 1..Len(metrics) : metrics[i].kind # "str" THEN Raised("TypeError")
    ELSE Returned(Join([i \in 1..Len(metrics) |-> Str(metrics[i].chars)], ", "))

\* SoQLBuilder.__init__: dataset_map or {}
DatasetMapOf(dataset_map) == PyOr(dataset_map, PyDict(<<>>))

\* the payload build returns
SoqlPayload(dataset, params) == [dataset |-> dataset, params |-> params]

\* SoQLBuilder.build as a function of its arguments and the dataset map
build(params, entity, dataset_map) ==
    LET where_clause == _build_where(params.filters)
        select == SelectClause(params.metrics)
        w == IF where_clause # "" THEN << <<"$where", where_clause>> >> ELSE <<>>
        m == IF params.metrics # <<>> THEN << <<"$select", select.value>> >> ELSE <<>>
        l == IF params.limit.kind # "none" THEN << <<"$limit", params.limit>> >> ELSE <<>> IN
    IF params.metrics # <<>> /\ select.status = "raised" THEN select
    ELSE Returned(SoqlPayload(_resolve_dataset(params, entity, dataset_map), w \o m \o l))

\* ------------------------------------------------ SoQLBuilder, inputs
W_OHara == <<"O", "'", "H", "a", "r", "a">>
W_count == <<"c", "o", "u", "n", "t">>
W_default_dataset == <<"d", "e", "f", "a", "u", "l", "t", "-", "d", "a", "t", "a", "s", "e", "t">>
FilterKeys == {"year", "buyer"}
\* one value of each kind _render_filter tells apart
FilterValuePool == { PyInt(2023), PyFloat(120000), PyBool(TRUE), PyStr(W_Bogota), PyStr(W_OHara),
                     PyList(<<>>), PyList(<<PyInt(1), PyStr(W_OHara)>>),
                     PyDict(<<Filter("k", PyInt(1))>>), PyNone }
\* the filters dicts: distinct keys, in either insertion order
FilterDicts ==
    UNION { { f \in [1..n -> [key : FilterKeys, val : FilterValuePool]] :
                \A i, j \in 1..n : f[i].key = f[j].key => i = j }
            : n \in 0..Cardinality(FilterKeys) }
MetricLists == { <<>>, <<PyStr(W_total_amount)>>, <<PyStr(<<>>)>>,
                 <<PyStr(W_total_amount), PyStr(W_count)>>,
                 <<PyStr(W_count), PyStr(W_total_amount)>>, <<PyInt(7)>> }
BuildLimits == { PyNone, PyInt(10) }
BuildEntityNames == { W_contracts, W_suppliers }
\* the QueryParams build is called with (raw_query plays no part in build)
BuildParams ==
    { [entity |-> PyStr(e), filters |-> f, metrics |-> m, raw_query |-> <<>>, limit |-> l] :
        e \in BuildEntityNames, f \in FilterDicts, m \in MetricLists, l \in BuildLimits }
\* the resolved entity: none, or one whose metadata has no dataset_id, a
\* dataset_id, or an empty one
BuildEntities ==
    { None,
      Some(ResolvedEntity(PyStr(W_Contracts), 90, PyDict(<<>>))),
      Some(ResolvedEntity(PyStr(W_Contracts), 90,
                          PyDict(<<Filter("dataset_id", PyStr(W_secop123))>>))),
      Some(ResolvedEntity(PyStr(W_Contracts), 90, PyDict(<<Filter("dataset_id", PyStr(<<>>))>>))) }
DatasetMaps == { PyNone, PyDict(<<Filter("contracts", PyStr(W_default_dataset))>>) }

\* ------------------------------------------------ SoQLBuilder.build, steps
InitBuild ==
    /\ bparams \in BuildParams
    /\ bentity \in BuildEntities
    /\ bmap \in { DatasetMapOf(d) : d \in DatasetMaps }
    /\ bpc = "dataset"
    /\ bdataset = PyNone
    /\ bsoql = <<>>
    /\ bout = NoOutcome
    /\ ClientOff
    /\ ParseOff
    /\ ResolveOff
    /\ SearchOff
    /\ ParamsOff

\* line 18: dataset_identifier = self._resolve_dataset(params, entity)
ResolveDataset ==
    /\ bpc = "dataset"
    /\ bdataset' = _resolve_dataset(bparams, bentity, bmap)
    /\ bpc' = "where"
    /\ UNCHANGED <<bparams, bentity, bmap, bsoql, bout>>
    /\ UNCHANGED nonBuildVars

\* lines 21-23: the $where key
BuildWhere ==
    /\ bpc = "where"
    /\ LET where_clause == _build_where(bparams.filters) IN
        bsoql' = IF where_clause # "" THEN Append(bsoql, <<"$where", where_clause>>) ELSE bsoql
    /\ bpc' = "select"
    /\ UNCHANGED <<bparams, bentity, bmap, bdataset, bout>>
    /\ UNCHANGED nonBuildVars

\* lines 25-26: the $select key
BuildSelect ==
    /\ bpc = "select"
    /\ IF bparams.metrics = <<>>
         THEN /\ bpc' = "limit"
              /\ UNCHANGED <<bsoql, bout>>
         ELSE LET select == SelectClause(bparams.metrics) IN
              IF select.status = "raised"
                THEN /\ bout' = select
                     /\ bpc' = "done"
                     /\ UNCHANGED bsoql
                ELSE /\ bsoql' = Append(bsoql, <<"$select", select.value>>)
                     /\ bpc' = "limit"
                     /\ UNCHANGED bout
    /\ UNCHANGED <<bparams, bentity, bmap, bdataset>>
    /\ UNCHANGED nonBuildVars

\* lines 28-29: the $limit key
BuildLimit ==
    /\ bpc = "limit"
    /\ bsoql' = IF bparams.limit.kind # "none"
                  THEN Append(bsoql, <<"$limit", bparams.limit>>) ELSE bsoql
    /\ bpc' = "return"
    /\ UNCHANGED <<bparams, bentity, bmap, bdataset, bout>>
    /\ UNCHANGED nonBuildVars

\* line 31: return {"dataset": dataset_identifier, "params": soql_params}
BuildReturn ==
    /\ bpc = "return"
    /\ bout' = Returned(SoqlPayload(bdataset, bsoql))
    /\ bpc' = "done"
    /\ UNCHANGED <<bparams, bentity, bmap, bdataset, bsoql>>
    /\ UNCHANGED nonBuildVars

NextBuild == ResolveDataset \/ BuildWhere \/ BuildSelect \/ BuildLimit \/ BuildReturn

SpecBuild == InitBuild /\ [][NextBuild]_vars

\* the keys of a params mapping, and the value under a key
KeysOf(ps) == { ps[i][1] : i \in 1..Len(ps) }
ValueOf(ps, key) == ps[CHOOSE i \in 1..Len(ps) : ps[i][1] = key][2]

\* the steps of build compose to the function build
BuildStepsAgree == bpc = "done" => bout = build(bparams, bentity, bmap)

\* C7: the dataset is chosen by strict precedence: the dataset identifier
\* carried by the resolved entity's metadata, else the static map's entry for
\* params.entity, else params.entity itself, for every combination of
\* resolved entity, metadata and dataset map.
C7_DatasetPrecedence ==
    (bpc = "done" /\ bout.status = "returned") =>
        LET carried == IF bentity.some THEN DictGet(bentity.data.metadata, "dataset_id")
                       ELSE PyNone
            name == Str(bparams.entity.chars) IN
        bout.value.dataset =
            IF carried.kind = "str" /\ carried.chars # <<>> THEN carried
            ELSE IF \E i \in 1..Len(bmap.items) : bmap.items[i].key = name
              THEN bmap.items[CHOOSE i \in 1..Len(bmap.items) : bmap.items[i].key = name].val
            ELSE bparams.entity

C7_Witness ==
    /\ bpc = "done"
    /\ bout.status = "returned"
    /\ bentity.some
    /\ HasKey(bentity.data.metadata, "dataset_id")
    /\ HasKey(bmap, Str(bparams.entity.chars))
    /\ bout.value.dataset = PyStr(W_secop123)

\* C8: the params mapping has $where iff filters is non-empty, $select iff
\* metrics is non-empty and $limit iff limit is present; it has no other key
\* and no key with an empty clause; $limit is params.limit unchanged and
\* $select is the metrics joined by ', ' in their order.
C8_ParamsKeys ==
    (bpc = "done" /\ bout.status = "returned") =>
        LET ps == bout.value.params IN
        /\ KeysOf(ps) \subseteq {"$where", "$select", "$limit"}
        /\ Len(ps) = Cardinality(KeysOf(ps))
        /\ "$where" \in KeysOf(ps) <=> bparams.filters # <<>>
        /\ "$select" \in KeysOf(ps) <=> bparams.metrics # <<>>
        /\ "$limit" \in KeysOf(ps) <=> bparams.limit.kind # "none"
        /\ "$where" \in KeysOf(ps) => ValueOf(ps, "$where") # ""
        /\ "$select" \in KeysOf(ps) => ValueOf(ps, "$select") # ""
        /\ "$limit" \in KeysOf(ps) => ValueOf(ps, "$limit") = bparams.limit
        /\ "$select" \in KeysOf(ps) =>
             ValueOf(ps, "$select") =
               Join([i \in 1..Len(bparams.metrics) |-> Str(bparams.metrics[i].chars)], ", ")

\* the clause the filter (key, value) is to be rendered as, by the kind of
\* the value: number, string, list, any other kind
ClauseByKind(key, value) ==
    CASE value.kind \in {"int", "float", "bool"} -> key \o " = " \o StrOf(value)
      [] value.kind = "str" ->
           "upper(" \o key \o ") LIKE upper('%" \o EscapeQuotes(value.chars) \o "%')"
      [] value.kind = "list" ->
           key \o " IN ("
             \o Join([i \in 1..Len(value.items) |->
                        IF value.items[i].kind \in {"int", "float"}
                          THEN StrOf(value.items[i])
                          ELSE "'" \o EscapeQuotes(value.items[i].chars) \o "'"], ", ")
             \o ")"
      [] OTHER -> key \o " = " \o JsonEncode(value)

\* C9: each filter is rendered by the kind of its value (number, string with
\* quotes doubled, list, any other kind json-encoded) and the where-clause is
\* these clauses, one per filter in filter order, joined with ' AND '.
C9_FilterRendering ==
    (bpc = "done" /\ bout.status = "returned" /\ bparams.filters # <<>>) =>
        /\ "$where" \in KeysOf(bout.value.params)
        /\ ValueOf(bout.value.params, "$where") =
             Join([i \in 1..Len(bparams.filters) |->
                     ClauseByKind(bparams.filters[i].key, bparams.filters[i].val)], " AND ")

\* ======================================================================
\* ResultFormatter (core/formatter.py).  In its texts an accented letter is
\* written as in the query texts (u_acute) and the ellipsis as "...".
\* ======================================================================
\* key.capitalize() of the keys _summarise_record looks at
SummaryKeys == <<"buyer", "supplier", "amount", "status">>
Capitalize(key) ==
    CASE key = "buyer" -> "Buyer" [] key = "supplier" -> "Supplier"
      [] key = "amount" -> "Amount" [] key = "status" -> "Status"

\* ResultFormatter._summarise_record
_summarise_record(record) ==
    LET present == SelectSeq(SummaryKeys,
                             LAMBDA k : HasKey(record, k) /\ Truthy(DictGet(record, k)))
        pieces == [i \in 1..Len(present) |->
                     Capitalize(present[i]) \o ": " \o StrOf(DictGet(record, present[i]))] IN
    Join(IF pieces = <<>> THEN <<JsonEncode(record)>> ELSE pieces, " | ")

\* ResultFormatter.format_for_whatsapp
format_for_whatsapp(records, params) ==
    IF records = <<>> THEN "No se encontraron resultados para tu bu_acutesqueda."
    ELSE
      LET shown == SubSeq(records, 1, Min2(5, Len(records)))
          lines == <<"Resultados para tu consulta:">>
                     \o [i \in 1..Len(shown) |->
                           IntToStr(i) \o ". " \o _summarise_record(shown[i])]
                     \o (IF Len(records) > 5
                           THEN <<"Y " \o IntToStr(Len(records) - 5) \o " resultados ma_acutes...">>
                           ELSE <<>>) IN
      Join(lines, "\n")

\* ResultFormatter.format_for_web (params.as_dict() holds the five fields)
format_for_web(records, params) ==
    [query |-> params, count |-> Len(records), results |-> records]

\* ======================================================================
\* SearchService (services/search_service.py): parse, resolve, build, query
\* and format, each component running its own steps.
\* ======================================================================
\* the top_k resolve is called with by _resolve_entity (its default)
DefaultTopK == 5

\* the exception query() re-raises when its retries are exhausted
RemoteFailure == "RemoteFailure"

\* ------------------------------------------------ SearchService, inputs
SearchTexts == { t \in Sentences : Len(t) > 40 }
SearchChannels == {"web", "whatsapp"}
\* the language model: none, one that raises, one that answers the object
\* of the tests, one whose entity is blank, one whose metric is a number
SearchLLMs == { NoLLM, LLMRaises, LLMReturns(JsonText(BasePayload)),
                LLMReturns(JsonText([BasePayload EXCEPT !.entity = PyStr(<<" ", " ">>)])),
                LLMReturns(JsonText([BasePayload EXCEPT !.metrics = PyList(<<PyInt(7)>>)])) }
SearchChromas == { NoChroma, ChromaRaises, ChromaAnswers(PyNone) }
                   \cup { ChromaStore(h) : h \in { l \in HitLists : Len(l) = 2 } }
SearchCoheres == { NoCohere, CohereRaises, CohereAnswers(PyNone),
                   CohereAnswers(RerankResponse(<<RerankItem(1, PyFrac(90))>>)) }
SearchRowSets == { <<>>,
                   <<PyDict(<<Filter("buyer", PyStr(W_Bogota)), Filter("amount", PyInt(0))>>)>>,
                   <<PyDict(<<>>), PyDict(<<Filter("status", PyStr(W_ACME))>>)>> }
SearchRetries == 0..1

\* ------------------------------------------------ SearchService.search, steps
InitSearch ==
    /\ squery \in SearchTexts
    /\ schannel \in SearchChannels
    /\ spc = "start"
    /\ sout = NoOutcome
    /\ ParamsOff
    \* the parser and its language model
    /\ ptext = <<>>
    /\ pllm \in SearchLLMs
    /\ ppc = "off"
    /\ praw = PyNone
    /\ presponse = None
    /\ pheur = FALSE
    /\ pout = NoOutcome
    \* the resolver and its capabilities
    /\ rmention = <<>>
    /\ rtopk = 0
    /\ rchroma \in SearchChromas
    /\ rcohere \in SearchCoheres
    /\ rpc = "off"
    /\ rcands = <<>>
    /\ rreranked = FALSE
    /\ rout = NoOutcome
    \* the builder and its dataset map
    /\ bparams = PyNone
    /\ bentity = None
    /\ bmap \in { DatasetMapOf(d) : d \in DatasetMaps }
    /\ bpc = "off"
    /\ bdataset = PyNone
    /\ bsoql = <<>>
    /\ bout = NoOutcome
    \* the client, its retry policy and its (empty) cache store
    /\ cache = <<>>
    /\ max_retries \in SearchRetries
    /\ retry_backoff = DefaultBackoff
    /\ redis_on \in BOOLEAN
    /\ qpc = [p \in Procs |-> "idle"]
    /\ qin = [p \in Procs |-> NoInput]
    /\ cached = [p \in Procs |-> None]
    /\ attempt = [p \in Procs |-> 0]
    /\ qresult = [p \in Procs |-> None]
    /\ calls = [p \in Procs |-> <<>>]
    /\ sleeps = [p \in Procs |-> <<>>]
    /\ writes = [p \in Procs |-> <<>>]

\* line 36: params = self._parser.parse(query) is called
SearchParse ==
    /\ spc = "start"
    /\ ptext' = squery
    /\ ppc' = "start"
    /\ spc' = "parse"
    /\ UNCHANGED <<pllm, praw, presponse, pheur, pout>>
    /\ UNCHANGED <<squery, schannel, sout>>
    /\ UNCHANGED <<clientVars, resolveVars, buildVars, paramsVars>>

\* lines 36-39 and 54-56: parse has returned or raised; an exception leaves
\* search, otherwise self._resolver.resolve(params.entity) is called
SearchResolveEntity ==
    /\ spc = "parse"
    /\ ppc = "done"
    /\ IF pout.status = "raised"
         THEN /\ sout' = pout
              /\ spc' = "done"
              /\ UNCHANGED resolveVars
         ELSE /\ rmention' = pout.value.entity.chars
              /\ rtopk' = DefaultTopK
              /\ rpc' = "start"
              /\ spc' = "resolve"
              /\ UNCHANGED <<rchroma, rcohere, rcands, rreranked, rout, sout>>
    /\ UNCHANGED <<squery, schannel>>
    /\ UNCHANGED <<clientVars, parseVars, buildVars, paramsVars>>

\* lines 39-40 and 57-59: resolve has returned or raised; an exception
\* leaves search, otherwise self._builder.build(params, resolved_entity)
SearchBuild ==
    /\ spc = "resolve"
    /\ rpc = "done"
    /\ IF rout.status = "raised"
         THEN /\ sout' = rout
              /\ spc' = "done"
              /\ UNCHANGED buildVars
         ELSE /\ bparams' = pout.value
              /\ bentity' = rout.value
              /\ bpc' = "dataset"
              /\ spc' = "build"
              /\ UNCHANGED <<bmap, bdataset, bsoql, bout, sout>>
    /\ UNCHANGED <<squery, schannel>>
    /\ UNCHANGED <<clientVars, parseVars, resolveVars, paramsVars>>

\* lines 40-43: build has returned or raised; an exception leaves search,
\* otherwise self._client.query(dataset, params) is entered
SearchQuery ==
    /\ spc = "build"
    /\ bpc = "done"
    /\ IF bout.status = "raised"
         THEN /\ sout' = bout
              /\ spc' = "done"
              /\ UNCHANGED clientVars
         ELSE /\ qin' = [qin EXCEPT ![1] = [dataset |-> bout.value.dataset,
                                            params |-> bout.value.params]]
              /\ qpc' = [qpc EXCEPT ![1] = IF redis_on THEN "get" ELSE "remote"]
              /\ spc' = "query"
              /\ UNCHANGED <<cache, max_retries, retry_backoff, redis_on, cached, attempt,
                             qresult, calls, sleeps, writes, sout>>
    /\ UNCHANGED <<squery, schannel>>
    /\ UNCHANGED <<parseVars, resolveVars, buildVars, paramsVars>>

\* lines 43-51: query has returned rows, which are formatted for the channel
\* and returned, or has raised the remote failure, which leaves search
SearchFormat ==
    /\ spc = "query"
    /\ qpc[1] \in {"returned", "raised"}
    /\ IF qpc[1] = "raised"
         THEN sout' = Raised(RemoteFailure)
         ELSE LET results == qresult[1].data
                  formatted == IF schannel = "whatsapp"
                                 THEN format_for_whatsapp(results, pout.value)
                                 ELSE format_for_web(results, pout.value) IN
              sout' = Returned([data |-> formatted, raw |-> results])
    /\ spc' = "done"
    /\ UNCHANGED <<squery, schannel>>
    /\ UNCHANGED <<clientVars, parseVars, resolveVars, buildVars, paramsVars>>

NextSearch ==
    \/ SearchParse
    \/ Generate \/ Coerce \/ Fallback \/ AssembleParams
    \/ SearchResolveEntity
    \/ SearchChroma \/ Rerank \/ SkipRerank \/ PickTop
    \/ SearchBuild
    \/ ResolveDataset \/ BuildWhere \/ BuildSelect \/ BuildLimit \/ BuildReturn
    \/ SearchQuery
    \/ CacheGet(1)
    \/ \E rows \in SearchRowSets : RemoteOk(1, rows)
    \/ RemoteFail(1)
    \/ Wake(1)
    \/ CacheSet(1)
    \/ \E k \in DOMAIN cache : Expire(k)
    \/ SearchFormat

SpecSearch == InitSearch /\ [][NextSearch]_vars

\* C4: search has exactly two outcomes: it returns rows (possibly empty), or
\* it fails with the remote-query failure raised after the bounded retries;
\* no exception of the parser or the entity resolver reaches its caller,
\* whatever the language model, similarity search and reranker do.
C4_TwoOutcomes ==
    spc = "done" =>
        \/ sout.status = "returned"
        \/ sout = Raised(RemoteFailure) /\ attempt[1] = max_retries + 1

\* ======================================================================
\* QueryParams (core/query_parser.py, lines 13-27): one construction, the
\* fields assigned by the dataclass and then __post_init__.
\* ======================================================================
ParamEntities == { PyStr(<<>>), PyStr(<<" ">>), PyStr(<<" ", " ">>), PyStr(W_contracts),
                   PyStr(<<" ", "a", " ">>) }
ParamLimits == {PyNone} \cup { PyInt(n) : n \in (0 - 1)..MaxLimit }
ParamFilters == { <<>>, <<Filter("year", PyInt(2023))>> }
ParamMetrics == { <<>>, <<PyStr(W_total_amount)>> }
ParamRawQueries == { <<>>, W_contracts }

InitParams ==
    /\ qp_args \in [entity : ParamEntities, filters : ParamFilters, metrics : ParamMetrics,
                    raw_query : ParamRawQueries, limit : ParamLimits]
    /\ qp_pc = "init"
    /\ qp_self = PyNone
    /\ qp_out = NoOutcome
    /\ ClientOff
    /\ ParseOff
    /\ ResolveOff
    /\ BuildOff
    /\ SearchOff

\* lines 17-21: the generated __init__ assigns the five fields
AssignFields ==
    /\ qp_pc = "init"
    /\ qp_self' = qp_args
    /\ qp_pc' = "post_init"
    /\ UNCHANGED <<qp_args, qp_out>>
    /\ UNCHANGED <<clientVars, parseVars, resolveVars, buildVars, searchVars>>

\* lines 23-27: __post_init__ raises, or the object is returned
PostInitStep ==
    /\ qp_pc = "post_init"
    /\ qp_out' = IF PostInit(qp_self.entity, qp_self.limit) # ""
                   THEN Raised(PostInit(qp_self.entity, qp_self.limit))
                   ELSE Returned(qp_self)
    /\ qp_pc' = "done"
    /\ UNCHANGED <<qp_args, qp_self>>
    /\ UNCHANGED <<clientVars, parseVars, resolveVars, buildVars, searchVars>>

NextParams == AssignFields \/ PostInitStep

SpecParams == InitParams /\ [][NextParams]_vars

\* the steps of the construction compose to the operator QueryParams
ParamsStepsAgree ==
    qp_pc = "done" =>
        qp_out = QueryParams(qp_args.entity, qp_args.filters, qp_args.metrics,
                             qp_args.raw_query, qp_args.limit)

\* an entity that is empty or holds only whitespace
Blank(entity) == \A i \in 1..Len(entity.chars) : entity.chars[i] \in Whitespace

\* C12: every QueryParams that exists after construction has a non-blank
\* entity and a limit that is absent or > 0: constructing one with an empty
\* or whitespace-only entity, or with a limit <= 0, fails with a validation
\* error and yields no object.
C12_ValidAfterConstruction ==
    qp_pc = "done" =>
        IF Blank(qp_args.entity) \/ (qp_args.limit.kind # "none" /\ qp_args.limit.num <= 0)
          THEN qp_out = Raised("ValueError")
          ELSE /\ qp_out = Returned(qp_args)
               /\ ~Blank(qp_out.value.entity)
               /\ qp_out.value.limit.kind = "none" \/ qp_out.value.limit.num > 0

C12_Witness ==
    /\ qp_pc = "done"
    /\ qp_args.entity = PyStr(<<" ", " ">>)
    /\ qp_args.limit = PyInt(1)
    /\ qp_out = Raised("ValueError")
====
